---- MODULE Spec2Model ----
(***************************************************************************)
(* Model of the TimesJobs notifier: JobNotifier (src/jobs_notify.py) as    *)
(* driven by src/main.py.  One JobNotifier object; run() may be invoked    *)
(* several times on it.  Texts are sequences of one-character strings so   *)
(* that strip(), lower(), split() and `in` are computed, not assumed.      *)
(***************************************************************************)
EXTENDS Integers, Sequences, FiniteSets

VARIABLES
    self_jobs,     \* JobNotifier.jobs: the fragments kept on the object
    pc,            \* position of the current run()
    runs,          \* number of run() invocations started so far
    status,        \* HTTP status of this run's response (0: none received)
    jobs,          \* run(): the list returned by fetch_jobs()
    idx,           \* run(): number of fragments whose loop iteration completed
    all_jobs,      \* run(): accumulated Job Records
    src,           \* history: src[k] is the fragment index all_jobs[k] came from
    extractCalls,  \* history: fragment indices extract_job_details was called on
    log,           \* lines printed during this run()
    exc,           \* exception that left run(), if any
    conn,          \* SMTP connection: "none", "open" or "closed"
    smtpCalls,     \* history: SMTP operations attempted in this run()
    mailCalls,     \* history: calls of send_email_notification in this run()
    text,          \* input of the is_job_recent probe
    recent         \* result of the is_job_recent probe

vars == <<self_jobs, pc, runs, status, jobs, idx, all_jobs, src, extractCalls,
          log, exc, conn, smtpCalls, mailCalls, text, recent>>

runVars == <<self_jobs, pc, runs, status, jobs, idx, all_jobs, src,
             extractCalls, log, exc, conn, smtpCalls, mailCalls>>

----------------------------------------------------------------------------
(* Bounds *)

MaxFrags == 3      \* listing containers in one fetched document
MaxRuns == 2       \* invocations of run() on the one object
MaxLen == 4        \* length of the indicator texts enumerated for is_job_recent

----------------------------------------------------------------------------
(* Python str operations on texts *)

Whitespace == {" ", "\n"}

UpperCase == <<"A","B","C","D","E","F","G","H","I","J","K","L","M",
               "N","O","P","Q","R","S","T","U","V","W","X","Y","Z">>

LowerCase == <<"a","b","c","d","e","f","g","h","i","j","k","l","m",
               "n","o","p","q","r","s","t","u","v","w","x","y","z">>

LowerChar(c) ==
    IF \E i \in 1..Len(UpperCase) : UpperCase[i] = c
    THEN LowerCase[CHOOSE i \in 1..Len(UpperCase) : UpperCase[i] = c]
    ELSE c

\* str.lower()
Lower(s) == [i \in 1..Len(s) |-> LowerChar(s[i])]

\* str.strip()
\* (keep is bound by a set constructor, which makes TLC evaluate it once)
Strip(s) ==
    CHOOSE r \in {IF keep = {} THEN <<>>
                  ELSE SubSeq(s, CHOOSE i \in keep : \A j \in keep : i <= j,
                                 CHOOSE i \in keep : \A j \in keep : j <= i) :
                     keep \in {{i \in 1..Len(s) : s[i] \notin Whitespace}}} : TRUE

\* sub in s
Contains(s, sub) ==
    \E i \in 1..(Len(s) - Len(sub) + 1) : SubSeq(s, i, i + Len(sub) - 1) = sub

\* the k-th line break of a set of break positions
BreakAt(brk, k) == CHOOSE i \in brk : Cardinality({j \in brk : j < i}) = k - 1

\* s.split('\n'): the segments between consecutive line breaks
SplitLines(s) ==
    CHOOSE r \in {[k \in 1..(Cardinality(brk) + 1) |->
                      SubSeq(s, IF k = 1 THEN 1 ELSE BreakAt(brk, k - 1) + 1,
                                IF k = Cardinality(brk) + 1 THEN Len(s)
                                ELSE BreakAt(brk, k) - 1)] :
                     brk \in {{i \in 1..Len(s) : s[i] = "\n"}}} : TRUE

IsNonBlank(seg) == Strip(seg) # <<>>

\* ... for skill in ... if skill.strip()
NonBlank(ss) == SelectSeq(ss, IsNonBlank)

\* [skill.strip().lower() for skill in skills.text.split('\n') if skill.strip()]
\* (kept is bound by a set constructor, which makes TLC evaluate it once)
SkillList(s) ==
    CHOOSE r \in {[i \in 1..Len(kept) |-> Lower(Strip(kept[i]))] :
                      kept \in {NonBlank(SplitLines(s))}} : TRUE

----------------------------------------------------------------------------
(* is_job_recent *)

Few == <<"f","e","w">>

\* job_posted_date.text.strip() and 'few' in job_posted_date.text.lower()
\* The value is '' when the stripped text is empty, else the bool of `in`.
is_job_recent_case_sensitive(t) ==
    IF Strip(t) = <<>> THEN "''"
    ELSE IF \E low \in {t} : Contains(low, Few) THEN "True" ELSE "False"

\* (low is bound by a quantifier, which makes TLC evaluate it once)
is_job_recent(t) ==
    IF Strip(t) = <<>> THEN "''"
    ELSE IF \E low \in {Lower(t)} : Contains(low, Few) THEN "True" ELSE "False"

\* truth value of a Python result in `if`
Truthy(v) == v = "True"

----------------------------------------------------------------------------
(* Listing fragments.  A lookup that can return None is a sequence of zero *)
(* or one texts.                                                           *)

TwoDaysAgo == <<"2"," ","d","a","y","s"," ","a","g","o">>
AFewDaysAgo == <<"a"," ","f","e","w"," ","d","a","y","s"," ","a","g","o">>
PostedFewUpper == <<"P","o","s","t","e","d"," ","F","E","W"," ","D","A","Y","S">>

TitleText == <<" ","B","I"," ","D","e","v","\n">>
CompanyText == <<"\n"," ","A","c","m","e"," ">>
SkillsText == <<"\n","S","Q","L","\n"," ","\n","R","\n">>
Url == "https://www.timesjobs.com/job-detail/1"

CompleteFragment(posted) ==
    [posted |-> posted, title |-> <<TitleText>>, company |-> <<CompanyText>>,
     link |-> Url, skills |-> <<SkillsText>>]

Shapes == {"complete", "no_title", "no_company", "no_anchor", "no_href", "no_skills"}

Shaped(f, shape) ==
    CASE shape = "no_title"   -> [f EXCEPT !.title = <<>>]
      [] shape = "no_company" -> [f EXCEPT !.company = <<>>]
      [] shape = "no_anchor"  -> [f EXCEPT !.link = "None"]
      [] shape = "no_href"    -> [f EXCEPT !.link = "nohref"]
      [] shape = "no_skills"  -> [f EXCEPT !.skills = <<>>]
      [] OTHER                -> f

\* the fragments documents are made of: every shape with a recent indicator,
\* and fragments with an old indicator or with none
Fragments ==
    {Shaped(CompleteFragment(<<AFewDaysAgo>>), s) : s \in Shapes}
    \cup {CompleteFragment(<<TwoDaysAgo>>), CompleteFragment(<<>>)}

RECURSIVE SeqsUpTo(_, _)
SeqsUpTo(S, n) ==
    IF n = 0 THEN {<<>>}
    ELSE LET shorter == SeqsUpTo(S, n - 1)
         IN  shorter \cup {Append(s, x) : s \in {t \in shorter : Len(t) = n - 1}, x \in S}

HTTP_OK == 200
OtherStatuses == {404}

----------------------------------------------------------------------------
(* extract_job_details *)

\* the exception extract_job_details(job) raises, "none" if it returns
ExtractRaises(job) ==
    IF job.title = <<>> THEN "AttributeError"             \* l.67 job.header.h2.a
    ELSE IF job.company = <<>> THEN "AttributeError"      \* l.77 company_name.text
    ELSE IF job.skills = <<>> THEN "UnboundLocalError"    \* l.78 skill_list
    ELSE IF job.link = "None" THEN "TypeError"            \* l.79 job_link['href']
    ELSE IF job.link = "nohref" THEN "KeyError"           \* l.79 job_link['href']
    ELSE "none"

\* what extract_job_details(job) prints before it returns or raises
ExtractLog(job) ==
    IF job.title # <<>> /\ job.skills = <<>>
    THEN <<[msg |-> "Skills: Not found", code |-> 0]>>
    ELSE <<>>

\* the dict extract_job_details(job) returns
extract_job_details(job) ==
    [title |-> Strip(job.title[1]),
     company |-> Strip(job.company[1]),
     skills |-> SkillList(job.skills[1]),
     link |-> job.link]

----------------------------------------------------------------------------
(* Initial state: the object after __init__ *)

NoExc == [type |-> "none", in |-> "none"]

Init ==
    /\ self_jobs = <<>>
    /\ pc = "idle"
    /\ runs = 0
    /\ status = 0
    /\ jobs = <<>>
    /\ idx = 0
    /\ all_jobs = <<>>
    /\ src = <<>>
    /\ extractCalls = {}
    /\ log = <<>>
    /\ exc = NoExc
    /\ conn = "none"
    /\ smtpCalls = <<>>
    /\ mailCalls = 0
    /\ text = <<>>
    /\ recent = "unset"

----------------------------------------------------------------------------
(* fetch_jobs, as called first by run() *)

CanStartRun == pc \in {"idle", "done"} /\ runs < MaxRuns

\* the locals and output of a fresh run() invocation
BeginRun ==
    /\ runs' = runs + 1
    /\ idx' = 0
    /\ all_jobs' = <<>>
    /\ src' = <<>>
    /\ extractCalls' = {}
    /\ conn' = "none"
    /\ smtpCalls' = <<>>
    /\ mailCalls' = 0

FailedToRetrieve(st) == [msg |-> "Failed to retrieve jobs. Status code:", code |-> st]

\* l.33-35: status 200, the body is parsed.  find_all's result is built in
\* place in self_jobs: nothing reads self.jobs between l.34 and l.36.
FetchOk ==
    /\ CanStartRun
    /\ status' = HTTP_OK
    /\ self_jobs' = <<>>
    /\ jobs' = <<>>
    /\ log' = <<>>
    /\ exc' = NoExc
    /\ pc' = "parse"
    /\ BeginRun
    /\ UNCHANGED <<text, recent>>

\* l.36: soup.find_all(name='li', class_='clearfix job-bx wht-shd-bx') meets
\* one more listing container in the document
FindAll ==
    /\ pc = "parse"
    /\ Len(self_jobs) < MaxFrags
    /\ \E f \in Fragments : self_jobs' = Append(self_jobs, f)
    /\ UNCHANGED <<pc, runs, status, jobs, idx, all_jobs, src, extractCalls, log,
                   exc, conn, smtpCalls, mailCalls, text, recent>>

\* l.36, 39: the document is exhausted; return self.jobs
ReturnJobs ==
    /\ pc = "parse"
    /\ jobs' = self_jobs
    /\ pc' = "loop"
    /\ UNCHANGED <<self_jobs, runs, status, idx, all_jobs, src, extractCalls, log,
                   exc, conn, smtpCalls, mailCalls, text, recent>>

\* l.33-34, 37-39: any other status is printed and self.jobs is returned as it is
FetchNon200 ==
    /\ CanStartRun
    /\ \E st \in OtherStatuses :
          /\ status' = st
          /\ log' = <<FailedToRetrieve(st)>>
    /\ jobs' = self_jobs
    /\ exc' = NoExc
    /\ pc' = "loop"
    /\ BeginRun
    /\ UNCHANGED <<self_jobs, text, recent>>

\* l.33: requests.get raises (DNS, refused, timeout); nothing in run() catches it
FetchNetworkError ==
    /\ CanStartRun
    /\ status' = 0
    /\ jobs' = <<>>
    /\ log' = <<>>
    /\ exc' = [type |-> "ConnectionError", in |-> "fetch_jobs"]
    /\ pc' = "done"
    /\ BeginRun
    /\ UNCHANGED <<self_jobs, text, recent>>

----------------------------------------------------------------------------
(* run(): one loop iteration per action *)

InLoop == pc = "loop" /\ idx < Len(jobs)

CurJob == jobs[idx + 1]

ShouldExtractUnfiltered(job) == TRUE

\* l.155: if self.is_job_recent(job)
ShouldExtract(job) == Truthy(is_job_recent(job.posted[1]))

\* l.52-53: job.find(...) is None and .text is taken of it
IsJobRecentRaises ==
    /\ InLoop
    /\ CurJob.posted = <<>>
    /\ exc' = [type |-> "AttributeError", in |-> "is_job_recent"]
    /\ pc' = "done"
    /\ UNCHANGED <<self_jobs, runs, status, jobs, idx, all_jobs, src, extractCalls,
                   log, conn, smtpCalls, mailCalls, text, recent>>

\* l.155 false: next fragment
SkipJob ==
    /\ InLoop
    /\ CurJob.posted # <<>>
    /\ ~ShouldExtract(CurJob)
    /\ idx' = idx + 1
    /\ UNCHANGED <<self_jobs, pc, runs, status, jobs, all_jobs, src, extractCalls,
                   log, exc, conn, smtpCalls, mailCalls, text, recent>>

\* l.155-157: recent, the record is appended
ExtractJob ==
    /\ InLoop
    /\ CurJob.posted # <<>>
    /\ ShouldExtract(CurJob)
    /\ ExtractRaises(CurJob) = "none"
    /\ extractCalls' = extractCalls \cup {idx + 1}
    /\ log' = log \o ExtractLog(CurJob)
    /\ all_jobs' = Append(all_jobs, extract_job_details(CurJob))
    /\ src' = Append(src, idx + 1)
    /\ idx' = idx + 1
    /\ UNCHANGED <<self_jobs, pc, runs, status, jobs, exc, conn, smtpCalls,
                   mailCalls, text, recent>>

\* l.156: extract_job_details raises and the exception leaves run()
ExtractJobRaises ==
    /\ InLoop
    /\ CurJob.posted # <<>>
    /\ ShouldExtract(CurJob)
    /\ ExtractRaises(CurJob) # "none"
    /\ extractCalls' = extractCalls \cup {idx + 1}
    /\ log' = log \o ExtractLog(CurJob)
    /\ exc' = [type |-> ExtractRaises(CurJob), in |-> "extract_job_details"]
    /\ pc' = "done"
    /\ UNCHANGED <<self_jobs, runs, status, jobs, idx, all_jobs, src, conn,
                   smtpCalls, mailCalls, text, recent>>

\* l.158-159: if all_jobs: self.send_email_notification(all_jobs)
CallMailer ==
    /\ pc = "loop"
    /\ idx = Len(jobs)
    /\ all_jobs # <<>>
    /\ mailCalls' = mailCalls + 1
    /\ pc' = "connect"
    /\ UNCHANGED <<self_jobs, runs, status, jobs, idx, all_jobs, src, extractCalls,
                   log, exc, conn, smtpCalls, text, recent>>

NoRecentJobs == [msg |-> "No recent jobs found.", code |-> 0]

\* l.160-161
ReportNoJobs ==
    /\ pc = "loop"
    /\ idx = Len(jobs)
    /\ all_jobs = <<>>
    /\ log' = Append(log, NoRecentJobs)
    /\ pc' = "done"
    /\ UNCHANGED <<self_jobs, runs, status, jobs, idx, all_jobs, src, extractCalls,
                   exc, conn, smtpCalls, mailCalls, text, recent>>

----------------------------------------------------------------------------
(* send_email_notification *)

\* smtplib's classes derived from SMTPException among the outcomes modelled
SMTPExceptions == {"SMTPConnectError", "SMTPAuthenticationError",
                   "SMTPNotSupportedError", "SMTPRecipientsRefused",
                   "SMTPServerDisconnected"}

\* outcomes of smtplib.SMTP("smtp.gmail.com", 587): a refused or unresolved
\* connection is an OSError, a greeting other than 220 an SMTPConnectError
ConnectOutcomes == {"ok", "SMTPConnectError", "OSError"}
\* outcomes of connection.starttls(): a failed handshake is ssl.SSLError
StartTlsOutcomes == {"ok", "SMTPNotSupportedError", "SSLError"}
\* outcomes of connection.login(...)
LoginOutcomes == {"ok", "SMTPAuthenticationError"}
\* outcomes of connection.sendmail(...); smtplib closes the socket itself
\* before it raises SMTPServerDisconnected
SendmailOutcomes == {"ok", "SMTPRecipientsRefused", "SMTPServerDisconnected"}

EmailSent == [msg |-> "Email sent successfully!", code |-> 0]
ConnectFailed == [msg |-> "Failed to connect to the email server.", code |-> 0]
AuthFailed == [msg |-> "Failed to authenticate.", code |-> 0]
SmtpError == [msg |-> "SMTP error occurred:", code |-> 0]

\* l.137-144: is the exception matched by one of the except clauses
Caught(e) == e \in SMTPExceptions

ExceptLogThenSuccess(e) ==
    (IF e = "SMTPConnectError" THEN <<ConnectFailed>>
     ELSE IF e = "SMTPAuthenticationError" THEN <<AuthFailed>>
     ELSE <<SmtpError>>) \o <<EmailSent>>

\* l.137-144: what the first matching except clause prints
ExceptLog(e) ==
    IF e = "SMTPConnectError" THEN <<ConnectFailed>>
    ELSE IF e = "SMTPAuthenticationError" THEN <<AuthFailed>>
    ELSE <<SmtpError>>

\* an SMTP operation raised e: an except clause prints and the method
\* returns, or the exception leaves send_email_notification and run()
MailFails(e) ==
    /\ pc' = "done"
    /\ IF Caught(e)
       THEN /\ log' = log \o ExceptLog(e)
            /\ exc' = exc
       ELSE /\ log' = log
            /\ exc' = [type |-> e, in |-> "send_email_notification"]

\* l.92
SmtpConnect ==
    /\ pc = "connect"
    /\ smtpCalls' = Append(smtpCalls, "connect")
    /\ \E o \in ConnectOutcomes :
          IF o = "ok"
          THEN conn' = "open" /\ pc' = "starttls" /\ UNCHANGED <<log, exc>>
          ELSE conn' = conn /\ MailFails(o)
    /\ UNCHANGED <<self_jobs, runs, status, jobs, idx, all_jobs, src, extractCalls,
                   mailCalls, text, recent>>

\* l.93
SmtpStartTls ==
    /\ pc = "starttls"
    /\ smtpCalls' = Append(smtpCalls, "starttls")
    /\ \E o \in StartTlsOutcomes :
          IF o = "ok"
          THEN pc' = "login" /\ UNCHANGED <<log, exc>>
          ELSE MailFails(o)
    /\ UNCHANGED <<self_jobs, runs, status, jobs, idx, all_jobs, src, extractCalls,
                   conn, mailCalls, text, recent>>

\* l.94
SmtpLogin ==
    /\ pc = "login"
    /\ smtpCalls' = Append(smtpCalls, "login")
    /\ \E o \in LoginOutcomes :
          IF o = "ok"
          THEN pc' = "sendmail" /\ UNCHANGED <<log, exc>>
          ELSE MailFails(o)
    /\ UNCHANGED <<self_jobs, runs, status, jobs, idx, all_jobs, src, extractCalls,
                   conn, mailCalls, text, recent>>

\* l.96-135: compose, sendmail, close, print
SmtpSendmail ==
    /\ pc = "sendmail"
    /\ smtpCalls' = Append(smtpCalls, "sendmail")
    /\ \E o \in SendmailOutcomes :
          IF o = "ok"
          THEN /\ conn' = "closed"
               /\ log' = Append(log, EmailSent)
               /\ pc' = "done"
               /\ exc' = exc
          ELSE /\ conn' = (IF o = "SMTPServerDisconnected" THEN "closed" ELSE conn)
               /\ MailFails(o)
    /\ UNCHANGED <<self_jobs, runs, status, jobs, idx, all_jobs, src, extractCalls,
                   mailCalls, text, recent>>

----------------------------------------------------------------------------
(* Specifications *)

\* the steps of a run() once it has been entered
RunStep ==
    \/ FindAll
    \/ ReturnJobs
    \/ IsJobRecentRaises
    \/ SkipJob
    \/ ExtractJob
    \/ ExtractJobRaises
    \/ CallMailer
    \/ ReportNoJobs
    \/ SmtpConnect
    \/ SmtpStartTls
    \/ SmtpLogin
    \/ SmtpSendmail

Next ==
    \/ FetchOk
    \/ FetchNon200
    \/ FetchNetworkError
    \/ RunStep

Spec == Init /\ [][Next]_vars

\* run() is straight-line sequential code: once entered it keeps executing
FairSpec == Init /\ [][Next]_vars /\ WF_vars(RunStep)

(* is_job_recent on its own, over all short indicator texts *)

Alphabet == {"f", "e", "w", "F", "E", "W", " ", "x"}

IndicatorTexts ==
    SeqsUpTo(Alphabet, MaxLen) \cup {TwoDaysAgo, AFewDaysAgo, PostedFewUpper}

InitRecent ==
    /\ self_jobs = <<>>
    /\ pc = "idle"
    /\ runs = 0
    /\ status = 0
    /\ jobs = <<>>
    /\ idx = 0
    /\ all_jobs = <<>>
    /\ src = <<>>
    /\ extractCalls = {}
    /\ log = <<>>
    /\ exc = NoExc
    /\ conn = "none"
    /\ smtpCalls = <<>>
    /\ mailCalls = 0
    /\ text \in IndicatorTexts
    /\ recent = "unset"

\* l.52-53 applied to a fragment whose indicator holds `text`
ProbeIsJobRecent ==
    /\ recent = "unset"
    /\ recent' = is_job_recent(text)
    /\ UNCHANGED <<runVars, text>>

NextRecent == ProbeIsJobRecent

SpecRecent == InitRecent /\ [][NextRecent]_vars

----------------------------------------------------------------------------
(* Vocabulary of the properties *)

InLog(m) == \E i \in 1..Len(log) : log[i] = m

\* recency as the specification words it, stated on the characters of the
\* text: some character is not whitespace, and "few" occurs in some casing
RecentText(t) ==
    /\ \E i \in 1..Len(t) : t[i] \notin Whitespace
    /\ \E i \in 1..(Len(t) - 2) :
          /\ t[i] \in {"f", "F"}
          /\ t[i + 1] \in {"e", "E"}
          /\ t[i + 2] \in {"w", "W"}

RecentFragment(f) == f.posted # <<>> /\ RecentText(f.posted[1])

HasRequired(f) == f.title # <<>> /\ f.company # <<>> /\ f.link \notin {"None", "nohref"}

RunEnded == pc = "done"

\* the terminal outcomes of a run
OutEmailSent == InLog(EmailSent)
OutNoRecentJobs == InLog(NoRecentJobs)
OutFatal == exc.in \in {"fetch_jobs", "is_job_recent", "extract_job_details"}
OutMailFailed ==
    \/ exc.in = "send_email_notification"
    \/ InLog(ConnectFailed) \/ InLog(AuthFailed) \/ InLog(SmtpError)

Count(b) == IF b THEN 1 ELSE 0

\* the document of the end-to-end scenario: recent and complete, not recent,
\* recent without a company element
ScenarioDocument ==
    <<CompleteFragment(<<AFewDaysAgo>>),
      CompleteFragment(<<TwoDaysAgo>>),
      Shaped(CompleteFragment(<<AFewDaysAgo>>), "no_company")>>

----------------------------------------------------------------------------
(* Claims *)

\* C1: whenever this run's GET received a status other than 200 (also on an
\* object whose earlier run received 200 and fragments), fetch_jobs returned
\* an empty sequence, no Job Record exists, the status code is logged and
\* send_email_notification has not been called.
C1_NonOkFetchYieldsNothing ==
    (status # 0 /\ status # HTTP_OK) =>
        /\ jobs = <<>>
        /\ all_jobs = <<>>
        /\ InLog(FailedToRetrieve(status))
        /\ mailCalls = 0

\* C2: a recent fragment lacking its title, company or link element yields no
\* record and does not stop the run: the run never ends in extract_job_details
\* on such a fragment, and the scenario document (recent complete, not recent,
\* recent without company) ends with the mailer called once with exactly the
\* first fragment's record.
C2_MissingRequiredSkipped ==
    /\ ~(RunEnded /\ exc.in = "extract_job_details" /\ ~HasRequired(CurJob))
    /\ (RunEnded /\ jobs = ScenarioDocument) =>
           (mailCalls = 1 /\ src = <<1>> /\ Len(all_jobs) = 1)

\* C3: every recent fragment with title, company and link but no skills
\* container that extract_job_details was called on has a Job Record whose
\* skills sequence is empty, and the missing container was logged.
C3_NoSkillsGivesEmptySkills ==
    \A i \in extractCalls :
        (HasRequired(jobs[i]) /\ jobs[i].skills = <<>>) =>
            /\ \E k \in 1..Len(src) : src[k] = i /\ all_jobs[k].skills = <<>>
            /\ InLog([msg |-> "Skills: Not found", code |-> 0])

\* C4: when send_email_notification has returned (after a successful send or
\* after a caught failure), no SMTP connection it opened is left open.
C4_ConnectionClosed ==
    (RunEnded /\ mailCalls > 0 /\ exc = NoExc) => conn # "open"

\* C5: whenever the mail step failed (connect, TLS upgrade, login or sendmail),
\* a failure message was logged, no SMTP operation was attempted twice and no
\* exception left send_email_notification.
C5_MailFailureContained ==
    (RunEnded /\ mailCalls > 0 /\ ~InLog(EmailSent)) =>
        /\ exc = NoExc
        /\ InLog(ConnectFailed) \/ InLog(AuthFailed) \/ InLog(SmtpError)
        /\ \A i, j \in 1..Len(smtpCalls) : smtpCalls[i] = smtpCalls[j] => i = j

\* C6 as stated: a run that has ended shows exactly one of the three outcomes
\* email sent, no recent jobs found, fatal error during fetch/parse/extraction.
C6_ExactlyOneOfThree ==
    RunEnded => Count(OutEmailSent) + Count(OutNoRecentJobs) + Count(OutFatal) = 1

\* C6 amended: every run that has been entered ends, and a run that has ended
\* shows exactly one of four outcomes: email sent, no recent jobs found, fatal
\* error during fetch/parse/extraction, or a failed mail step.
C6_TerminatesWithOneOfFour ==
    /\ [](RunEnded =>
            Count(OutEmailSent) + Count(OutNoRecentJobs) + Count(OutFatal)
                + Count(OutMailFailed) = 1)
    /\ [](pc \notin {"idle", "done"} => <>RunEnded)

C6_Witness == RunEnded /\ InLog(AuthFailed) /\ exc = NoExc /\ ~OutEmailSent

\* C7: a fragment without a recency indicator is treated as not recent:
\* is_job_recent never raises, so no run ends with an exception from it.
C7_MissingIndicatorNotRecent == exc.in # "is_job_recent"

\* C8: in a run that has ended the mailer was called at most once, and it was
\* called exactly if the accumulated Job Records are non-empty; a status-200
\* document without listing containers gives no records, no mailer call and
\* the "no recent jobs" report.
C8_MailerIffRecords ==
    RunEnded =>
        /\ mailCalls <= 1
        /\ mailCalls = 1 <=> all_jobs # <<>>
        /\ (status = HTTP_OK /\ jobs = <<>>) =>
               (all_jobs = <<>> /\ mailCalls = 0 /\ OutNoRecentJobs)

\* C9: for an indicator with text t, is_job_recent is true exactly if t has a
\* non-whitespace character and contains "few" in some letter case; "2 days
\* ago" is not recent, "a few days ago" is.
C9_RecentIffFew ==
    recent # "unset" =>
        /\ Truthy(recent) <=> RecentText(text)
        /\ text = TwoDaysAgo => ~Truthy(recent)
        /\ text = AFewDaysAgo => Truthy(recent)

C9_Witness == recent = "True" /\ text = PostedFewUpper

\* C10: at every point of a run the accumulated records come from recent
\* fragments only, at most one per fragment, in the order of the fragments
\* fetch_jobs returned, and extract_job_details was only ever called on
\* recent fragments.
C10_OnlyRecentInOrder ==
    /\ Len(src) = Len(all_jobs)
    /\ \A k \in 1..Len(src) :
          /\ src[k] \in 1..idx
          /\ RecentFragment(jobs[src[k]])
          /\ all_jobs[k].link = jobs[src[k]].link
    /\ \A k, l \in 1..Len(src) : k < l => src[k] < src[l]
    /\ \A i \in extractCalls : i \in 1..Len(jobs) /\ RecentFragment(jobs[i])

C10_Witness ==
    /\ RunEnded
    /\ src = <<1, 3>>
    /\ ~RecentFragment(jobs[2])
    /\ jobs[2].posted # <<>>

====
